---- MODULE Spec2Model ----
(***************************************************************************)
(* Model of grplot.DataSource (src/grplot/__init__.py): the windowed view  *)
(* [_start, _end) into a flat binary file of fixed-width records, loaded   *)
(* into self.data by load_file / reload_file and the start / end property  *)
(* setters.                                                                *)
(***************************************************************************)
EXTENDS Integers, Sequences, FiniteSets, TLC

\* numpy.dtype(numpy.complex64).itemsize: the record width in bytes.
DataSize == 8

\* Files hold 0..MaxRecords whole records (plus possibly trailing bytes).
MaxRecords == 3

\* The setters are called with the integers -1..MaxValue.
MaxValue == 4

Paths == {"a.bin", "b.bin"}

\* The value of source_path before any successful load (Python None).
None == "None"

\* Trailing bytes a file may carry after its last whole record.
Remainders == {0, DataSize - 1}

FileLens == {t * DataSize + r : t \in 0..MaxRecords, r \in Remainders}

\* A path either names no file (open raises) or a file of st_size bytes.
FileStates ==
    {[exists |-> FALSE, st_size |-> 0]}
        \cup {[exists |-> TRUE, st_size |-> n] : n \in FileLens}

Values == (0 - 1)..MaxValue

\* self.data: None after construction, else the array numpy.fromfile made.
\* A sample is named by the file and record index it was decoded from.
NoData == [isNone |-> TRUE, items |-> <<>>]

Array(items) == [isNone |-> FALSE, items |-> items]

VARIABLES
    files,        \* the file system: path -> FileStates
    pc,           \* "new" before DataSource(...), "ready" after, "failed" if it raised
    source_path,  \* self.source_path
    data,         \* self.data
    _start,       \* self._start
    _end,         \* self._end
    last,         \* the most recent call, its arguments and its outcome
    pre,          \* the object's fields when that call was made
    _first_file,  \* MainWindow._first_file
    fftsize,      \* PlottingWidget.fftsize
    window,       \* PlottingWidget.window
    psd           \* the most recent signal.welch call of _refresh_psd_plot

vars ==
    <<files, pc, source_path, data, _start, _end, last, pre,
      _first_file, fftsize, window, psd>>

\* The state of the window and its plots, which DataSource never touches.
gui == <<_first_file, fftsize, window, psd>>

\* The fields of a DataSource object as one value.
Obj(p, d, s, e) == [source_path |-> p, data |-> d, _start |-> s, _end |-> e]

Self == Obj(source_path, data, _start, _end)

----------------------------------------------------------------------------
\* Outcomes of a call: the object afterwards, and the exception if one
\* propagated to the caller.
Ok(obj, log) == [ok |-> TRUE, err |-> "none", obj |-> obj, log |-> log]

Raise(err, obj, log) == [ok |-> FALSE, err |-> err, obj |-> obj, log |-> log]

\* data_file.seek(offset) followed by numpy.fromfile(data_file, dtype, count)
\* on a file of file_len bytes: count < 0 reads every whole item left after
\* the offset, otherwise at most count items.
FromFile(path, file_len, offset, count) ==
    LET avail == IF file_len > offset
                 THEN (file_len - offset) \div DataSize ELSE 0
        n == IF count < 0 THEN avail
             ELSE IF count < avail THEN count ELSE avail
    IN  [i \in 1..n |-> <<path, offset \div DataSize + i - 1>>]

\* _file_range: the number of whole records in file_len bytes.
DataLenCeil(file_len) == (file_len + DataSize - 1) \div DataSize

DataLen(file_len) ==
    LET remainder_bytes == file_len % DataSize
    IN  (file_len - remainder_bytes) \div DataSize

\* _file_range: the file is too short to do anything useful.
TooShortNever(data_len) == data_len < 0

TooShort(data_len) == data_len = 0

\* _file_range: the clamp of the stored start.
ClampStartNone(cur_start, data_len) == cur_start

ClampStartToLen(cur_start, data_len) ==
    IF cur_start >= data_len THEN data_len ELSE cur_start

ClampStart(cur_start, data_len) ==
    IF cur_start >= data_len THEN data_len - 1 ELSE cur_start

\* _file_range: the clamp of the stored end.
ClampEndNone(cur_end, data_len) == cur_end

ClampEndLikeStart(cur_end, data_len) ==
    IF cur_end >= data_len THEN data_len - 1 ELSE cur_end

ClampEnd(cur_end, data_len) ==
    IF cur_end > data_len THEN data_len ELSE cur_end

\* DataSource._file_range(file_len, full_scale) for an object whose stored
\* bounds are cur_start, cur_end.
FileRange(file_len, full_scale, cur_start, cur_end) ==
    LET log == IF file_len % DataSize # 0 THEN {"truncated"} ELSE {}
        data_len == DataLen(file_len)
    IN  IF TooShort(data_len)
        THEN [ok |-> FALSE, new_start |-> 0, new_end |-> 0, log |-> log]
        ELSE IF full_scale
        THEN [ok |-> TRUE, new_start |-> 0, new_end |-> data_len, log |-> log]
        ELSE [ok |-> TRUE, new_start |-> ClampStart(cur_start, data_len),
              new_end |-> ClampEnd(cur_end, data_len), log |-> log]

\* load_file with self.source_path assigned before the file is read.
LoadFilePathFirst(fs, obj, path, reset) ==
    LET early == [obj EXCEPT !.source_path = path]
    IN  IF path = None THEN Raise("TypeError", obj, {})
        ELSE IF ~fs[path].exists THEN Raise("IOError", early, {})
        ELSE
          LET file_len == fs[path].st_size
              r == FileRange(file_len, reset, obj._start, obj._end)
              limits_changed ==
                  <<r.new_start, r.new_end>> # <<obj._start, obj._end>>
              log == r.log \cup (IF limits_changed /\ ~reset
                                 THEN {"adjusted"} ELSE {})
          IN  IF ~r.ok THEN Raise("FileTooShort", early, r.log)
              ELSE IF r.new_start < 0 THEN Raise("IOError", early, log)
              ELSE Ok(Obj(path,
                          Array(FromFile(path, file_len,
                                         r.new_start * DataSize,
                                         r.new_end - r.new_start)),
                          r.new_start, r.new_end),
                      log)

\* load_file that logs the adjustment whether or not reset was given.
LoadFileWarnAlways(fs, obj, path, reset) ==
    IF path = None THEN Raise("TypeError", obj, {})
    ELSE IF ~fs[path].exists THEN Raise("IOError", obj, {})
    ELSE
      LET file_len == fs[path].st_size
          r == FileRange(file_len, reset, obj._start, obj._end)
          limits_changed ==
              <<r.new_start, r.new_end>> # <<obj._start, obj._end>>
          log == r.log \cup (IF limits_changed THEN {"adjusted"} ELSE {})
      IN  IF ~r.ok THEN Raise("FileTooShort", obj, r.log)
          ELSE IF r.new_start < 0 THEN Raise("IOError", obj, log)
          ELSE Ok(Obj(path,
                      Array(FromFile(path, file_len, r.new_start * DataSize,
                                     r.new_end - r.new_start)),
                      r.new_start, r.new_end),
                  log)

\* DataSource.load_file(path, reset) on object obj with file system fs:
\* open raises for None and for a missing file, _file_range for a short
\* file, seek for a negative offset; the fields are assigned last.
LoadFile(fs, obj, path, reset) ==
    IF path = None THEN Raise("TypeError", obj, {})
    ELSE IF ~fs[path].exists THEN Raise("IOError", obj, {})
    ELSE
      LET file_len == fs[path].st_size
          r == FileRange(file_len, reset, obj._start, obj._end)
          limits_changed ==
              <<r.new_start, r.new_end>> # <<obj._start, obj._end>>
          log == r.log \cup (IF limits_changed /\ ~reset
                             THEN {"adjusted"} ELSE {})
      IN  IF ~r.ok THEN Raise("FileTooShort", obj, r.log)
          ELSE IF r.new_start < 0 THEN Raise("IOError", obj, log)
          ELSE Ok(Obj(path,
                      Array(FromFile(path, file_len, r.new_start * DataSize,
                                     r.new_end - r.new_start)),
                      r.new_start, r.new_end),
                  log)

\* reload_file that returns quietly when no file was loaded yet.
ReloadFileSilent(fs, obj) ==
    IF obj.source_path = None THEN Ok(obj, {})
    ELSE LoadFile(fs, obj, obj.source_path, FALSE)

\* DataSource.reload_file().
ReloadFile(fs, obj) == LoadFile(fs, obj, obj.source_path, FALSE)

\* The start setter without the except clause's assignment.
StartSetterNoRollback(fs, obj, value) ==
    LET r == ReloadFile(fs, [obj EXCEPT !._start = value])
    IN  IF r.ok THEN r ELSE Raise(r.err, r.obj, r.log)

\* The start property setter.
StartSetter(fs, obj, value) ==
    LET old_start == obj._start
        r == ReloadFile(fs, [obj EXCEPT !._start = value])
    IN  IF r.ok THEN r
        ELSE Raise(r.err, [r.obj EXCEPT !._start = old_start], r.log)

\* The end property setter.
EndSetter(fs, obj, value) ==
    LET old_end == obj._end
        r == ReloadFile(fs, [obj EXCEPT !._end = value])
    IN  IF r.ok THEN r
        ELSE Raise(r.err, [r.obj EXCEPT !._end = old_end], r.log)

----------------------------------------------------------------------------
\* FFTSettingsWidget: the sizes of the size box, 2^7 .. 2^13.
FftSizes == {2^exp : exp \in 7..13}

\* _WINDOW_FUNCTIONS
WINDOW_FUNCTIONS ==
    {"boxcar", "triang", "blackman", "hamming", "hann", "bartlett",
     "flattop", "parzen", "bohman", "blackmanharris", "nuttall", "barthann"}

\* getattr(signal.windows, name)(M): an array of M coefficients, kept as
\* its function and its length.
SignalWindow(name, M) == [name |-> name, len |-> M]

\* PlottingWidget.__init__: fftsize = 256, window = blackman(fftsize).
DefaultFftSize == 256

\* No PSD has been computed.
NoPsd ==
    [ran |-> FALSE, n |-> 0, nfft |-> 0, win |-> SignalWindow("none", 0),
     ok |-> TRUE, err |-> "none", freq_len |-> 0, power_len |-> 0]

\* signal.welch(x, window=win, nfft=nfft, noverlap=nfft/4.0,
\* return_onesided=False) for len(x) = n: empty input gives empty output; an
\* array window sets nperseg = len(win) and is rejected when it is longer than
\* the input; nfft < nperseg and noverlap >= nperseg are rejected; otherwise
\* the two-sided frequency axis and the power array have nfft entries each.
Welch(n, win, nfft) ==
    LET nperseg == win.len
        noverlap == nfft \div 4
        call == [ran |-> TRUE, n |-> n, nfft |-> nfft, win |-> win]
        raise == call @@ [ok |-> FALSE, err |-> "ValueError",
                          freq_len |-> 0, power_len |-> 0]
    IN  IF n = 0
        THEN call @@ [ok |-> TRUE, err |-> "none",
                      freq_len |-> 0, power_len |-> 0]
        ELSE IF n < nperseg THEN raise
        ELSE IF nfft < nperseg THEN raise
        ELSE IF noverlap >= nperseg THEN raise
        ELSE call @@ [ok |-> TRUE, err |-> "none",
                      freq_len |-> nfft, power_len |-> nfft]

\* PlottingWidget.refresh_plot(): nothing without data; else the time plot,
\* then the PSD plot, then the spectrogram, which passes the same window and
\* nfft to signal.spectrogram and indexes time_segments[0].
RefreshPlot(obj, size, win, old_psd) ==
    IF obj.data.isNone THEN [ok |-> TRUE, err |-> "none", psd |-> old_psd]
    ELSE
      LET p == Welch(Len(obj.data.items), win, size)
      IN  IF ~p.ok THEN [ok |-> FALSE, err |-> p.err, psd |-> p]
          ELSE IF p.n = 0 THEN [ok |-> FALSE, err |-> "IndexError", psd |-> p]
          ELSE [ok |-> TRUE, err |-> "none", psd |-> p]

\* set_fft that refreshes the plots before it recomputes the window.
PlotSetFftRefreshFirst(obj, old_win, old_psd, size, name) ==
    [fftsize |-> size, window |-> SignalWindow(name, size),
     r |-> RefreshPlot(obj, size, old_win, old_psd)]

\* PlottingWidget.set_fft(size, window)
PlotSetFft(obj, old_win, old_psd, size, name) ==
    LET new_win == SignalWindow(name, size)
    IN  [fftsize |-> size, window |-> new_win,
         r |-> RefreshPlot(obj, size, new_win, old_psd)]

----------------------------------------------------------------------------
Call(op, path, reset, value, r) ==
    [op |-> op, path |-> path, reset |-> reset, value |-> value,
     ok |-> r.ok, err |-> r.err, log |-> r.log]

NoCall(op) ==
    [op |-> op, path |-> None, reset |-> FALSE, value |-> 0,
     ok |-> TRUE, err |-> "none", log |-> {}]

\* Store the object a call left behind, and record the call.
Commit(r, call) ==
    /\ source_path' = r.obj.source_path
    /\ data' = r.obj.data
    /\ _start' = r.obj._start
    /\ _end' = r.obj._end
    /\ last' = call
    /\ pre' = Self

\* Lines 552-556 of DataSource.__init__ have run; the path argument has not
\* been looked at yet.
Init ==
    /\ files \in [Paths -> FileStates]
    /\ pc = "new"
    /\ source_path = None
    /\ data = NoData
    /\ _start = 0
    /\ _end = 0
    /\ last = NoCall("none")
    /\ pre = Obj(None, NoData, 0, 0)
    /\ _first_file = TRUE
    /\ fftsize = DefaultFftSize
    /\ window = SignalWindow("blackman", DefaultFftSize)
    /\ psd = NoPsd

\* DataSource(path): with a path the constructor loads the whole file, and
\* an exception from that load leaves the caller without an object.
Construct(path) ==
    /\ pc = "new"
    /\ LET r == IF path = None THEN Ok(Self, {})
                ELSE LoadFile(files, Self, path, TRUE)
       IN  /\ pc' = IF r.ok THEN "ready" ELSE "failed"
           /\ Commit(r, Call("__init__", path, TRUE, 0, r))
    /\ UNCHANGED <<files, gui>>

\* ds.load_file(path, reset)
CallLoadFile(path, reset) ==
    /\ pc = "ready"
    /\ LET r == LoadFile(files, Self, path, reset)
       IN  Commit(r, Call("load_file", path, reset, 0, r))
    /\ UNCHANGED <<files, pc, gui>>

\* ds.reload_file()
CallReloadFile ==
    /\ pc = "ready"
    /\ LET r == ReloadFile(files, Self)
       IN  Commit(r, Call("reload_file", source_path, FALSE, 0, r))
    /\ UNCHANGED <<files, pc, gui>>

\* ds.start = value
SetStart(value) ==
    /\ pc = "ready"
    /\ LET r == StartSetter(files, Self, value)
       IN  Commit(r, Call("start", source_path, FALSE, value, r))
    /\ UNCHANGED <<files, pc, gui>>

\* ds.end = value
SetEnd(value) ==
    /\ pc = "ready"
    /\ LET r == EndSetter(files, Self, value)
       IN  Commit(r, Call("end", source_path, FALSE, value, r))
    /\ UNCHANGED <<files, pc, gui>>

\* Between two calls something else replaces, truncates, extends or removes
\* the file at a path.
FileChanged(path, f) ==
    /\ pc = "ready"
    /\ files[path] # f
    /\ files' = [files EXCEPT ![path] = f]
    /\ last' = NoCall("file_changed")
    /\ pre' = Self
    /\ UNCHANGED <<pc, source_path, data, _start, _end, gui>>

Next ==
    \/ \E path \in Paths \cup {None} : Construct(path)
    \/ \E path \in Paths, reset \in BOOLEAN : CallLoadFile(path, reset)
    \/ CallReloadFile
    \/ \E value \in Values : SetStart(value)
    \/ \E value \in Values : SetEnd(value)

\* The session the design assumes: the files do not change.
Spec == Init /\ [][Next]_vars

NextEnv ==
    \/ Next
    \/ \E path \in Paths, f \in FileStates : FileChanged(path, f)

\* The same calls, with the files free to change between them.
SpecEnv == Init /\ [][NextEnv]_vars

----------------------------------------------------------------------------
\* The application: MainWindow with its DataSource, PlottingWidget and
\* PlotSettingsWidget.

\* The files of the test fixtures hold 100 samples.
FixtureRecords == 100

\* A recording long enough for the smaller FFT sizes.
LongRecords == 256

GuiFileStates ==
    {[exists |-> FALSE, st_size |-> 0],
     [exists |-> TRUE, st_size |-> 0],
     [exists |-> TRUE, st_size |-> FixtureRecords * DataSize],
     [exists |-> TRUE, st_size |-> LongRecords * DataSize + 1]}

\* QFileDialog.getOpenFileName returns '' when no file is selected.
Cancelled == ""

\* The window functions picked in the window box during a session.
WindowChoices == WINDOW_FUNCTIONS \cap {"boxcar", "blackman", "hann"}

\* The size box of FFTSettingsWidget shows its first item.
InitialFftSize == 2^7

InitGui ==
    /\ files \in [Paths -> GuiFileStates]
    /\ pc = "new"
    /\ source_path = None
    /\ data = NoData
    /\ _start = 0
    /\ _end = 0
    /\ last = NoCall("none")
    /\ pre = Obj(None, NoData, 0, 0)
    /\ _first_file = TRUE
    /\ fftsize = DefaultFftSize
    /\ window = SignalWindow("blackman", DefaultFftSize)
    /\ psd = NoPsd

\* MainWindow(file): DataSource(file), _first_file, PlottingWidget with its
\* defaults, then PlotSettingsWidget, whose constructor calls _file_change
\* (a refresh_plot), _fft_change (set_fft with the boxes' values) and
\* source_update. An exception anywhere ends the start-up.
MainWindowInit(file) ==
    /\ pc = "new"
    /\ LET ds == IF file = None THEN Ok(Self, {})
                 ELSE LoadFile(files, Self, file, TRUE)
           win0 == SignalWindow("blackman", DefaultFftSize)
           r1 == RefreshPlot(ds.obj, DefaultFftSize, win0, psd)
           f == PlotSetFft(ds.obj, win0, r1.psd, InitialFftSize, "blackman")
       IN  /\ Commit(ds, Call("MainWindow", file, TRUE, 0,
                              IF ~ds.ok THEN ds
                              ELSE IF ~r1.ok THEN Raise(r1.err, ds.obj, ds.log)
                              ELSE IF ~f.r.ok THEN Raise(f.r.err, ds.obj, ds.log)
                              ELSE ds))
           /\ pc' = IF ds.ok /\ r1.ok /\ f.r.ok THEN "ready" ELSE "failed"
           /\ _first_file' = IF ds.ok THEN (file = None) ELSE _first_file
           /\ fftsize' = IF ds.ok /\ r1.ok THEN f.fftsize ELSE fftsize
           /\ window' = IF ds.ok /\ r1.ok THEN f.window ELSE window
           /\ psd' = IF ~ds.ok THEN psd
                     ELSE IF ~r1.ok THEN r1.psd ELSE f.r.psd
    /\ UNCHANGED files

\* MainWindow._open_file(): the dialog, load_file(file_path,
\* self._first_file), source_update, refresh_plot. An exception leaves the
\* slot; the application goes on or is terminated.
OpenFile(file_path) ==
    /\ pc = "ready"
    /\ IF file_path = Cancelled
       THEN /\ Commit(Ok(Self, {}),
                      Call("open_file", file_path, _first_file, 0,
                           Ok(Self, {})))
            /\ UNCHANGED <<pc, psd>>
       ELSE LET ld == LoadFile(files, Self, file_path, _first_file)
                r == IF ld.ok THEN RefreshPlot(ld.obj, fftsize, window, psd)
                     ELSE [ok |-> FALSE, err |-> ld.err, psd |-> psd]
            IN  /\ Commit(ld, Call("open_file", file_path, _first_file, 0,
                                   IF r.ok THEN ld
                                   ELSE Raise(r.err, ld.obj, ld.log)))
                /\ psd' = r.psd
                /\ pc' \in IF r.ok THEN {"ready"} ELSE {"ready", "failed"}
    /\ UNCHANGED <<files, _first_file, fftsize, window>>

\* PlotSettingsWidget._fft_change(): set_fft with the values of the boxes.
FftChange(size, name) ==
    /\ pc = "ready"
    /\ LET f == PlotSetFft(Self, window, psd, size, name)
       IN  /\ fftsize' = f.fftsize
           /\ window' = f.window
           /\ psd' = f.r.psd
           /\ pc' \in IF f.r.ok THEN {"ready"} ELSE {"ready", "failed"}
           /\ last' = Call("set_fft", None, FALSE, size,
                           [ok |-> f.r.ok, err |-> f.r.err, log |-> {}])
           /\ pre' = Self
    /\ UNCHANGED <<files, source_path, data, _start, _end, _first_file>>

NextGui ==
    \/ \E file \in Paths \cup {None} : MainWindowInit(file)
    \/ \E file_path \in Paths \cup {Cancelled} : OpenFile(file_path)
    \/ \E size \in FftSizes, name \in WindowChoices : FftChange(size, name)

\* A session of the application.
SpecGui == InitGui /\ [][NextGui]_vars

----------------------------------------------------------------------------
\* Vocabulary of the properties below.

\* floor(byte_length / record_width) of the file at path.
TotalRecords(path) == files[path].st_size \div DataSize

\* The last call was one of the operations that load the buffer.
LastIsLoad == last.op \in {"load_file", "reload_file", "start", "end"}

\* The last call was a load of the whole file: load_file(path, True) or
\* DataSource(path).
LastIsResetLoad ==
    \/ last.op = "load_file" /\ last.reset
    \/ last.op = "__init__" /\ last.path # None

\* The last call was a load that keeps the stored window: load_file(path,
\* False) or reload_file() with a file loaded.
LastIsKeepLoad ==
    \/ last.op = "load_file" /\ ~last.reset
    \/ last.op = "reload_file" /\ last.path # None

\* A file was loaded when the last call was made.
WasLoaded == pre.source_path # None

\* The records of the file at path from index from, as the buffer holds them.
Window(path, from, n) == [i \in 1..n |-> <<path, from + i - 1>>]

\* C1: a reset load (load_file(path, True) or DataSource(path)) of a file of
\* at least one record width succeeds and leaves start = 0 and
\* end = floor(byte_length / record_width), whatever bounds were stored and
\* whether or not the length is a multiple of the record width.
C1_ResetLoadsWholeFile ==
    (/\ LastIsResetLoad
     /\ files[last.path].exists
     /\ files[last.path].st_size >= DataSize)
        => /\ last.ok
           /\ _start = 0
           /\ _end = TotalRecords(last.path)

\* A reset load_file of a file with trailing bytes, made with a window stored
\* that is not the whole of that file.
C1_Witness ==
    /\ last.op = "load_file" /\ last.reset /\ last.ok
    /\ files[last.path].st_size % DataSize # 0
    /\ pre._start > 0
    /\ pre._end # TotalRecords(last.path)
    /\ _start = 0 /\ _end = TotalRecords(last.path)

\* C2: with the files fixed, once a file is loaded the stored window lies
\* inside the file at source_path: end <= total_records and
\* start <= total_records - 1.
C2_WindowInsideFile ==
    (pc = "ready" /\ source_path # None)
        => /\ files[source_path].exists
           /\ _end <= TotalRecords(source_path)
           /\ _start <= TotalRecords(source_path) - 1

\* Another, shorter file was loaded over a window that reaches past its end.
C2_Witness ==
    /\ last.op = "load_file" /\ ~last.reset /\ last.ok
    /\ WasLoaded /\ pre.source_path # source_path
    /\ pre._end > TotalRecords(source_path)
    /\ pre._start > TotalRecords(source_path) - 1
    /\ _end = TotalRecords(source_path)

\* C3: after every successful load_file, reload_file or setter call the
\* buffer holds exactly end - start records, read from record offset start.
C3_BufferIsWindow ==
    (LastIsLoad /\ last.ok)
        => /\ ~data.isNone
           /\ Len(data.items) = _end - _start
           /\ data.items = Window(source_path, _start, _end - _start)

\* C4: a setter call or non-reset load whose resolved bounds have
\* start > end raises; no successful operation commits start > end.
C4_NoInvertedWindow ==
    (LastIsLoad /\ last.ok) => _start <= _end

\* C5: a setter whose reload fails re-raises, and afterwards the bound it
\* set, the other bound, source_path and the buffer are as before the call.
C5_FailedSetterRollsBack ==
    (last.op \in {"start", "end"} /\ ~last.ok)
        => /\ last.err # "none"
           /\ Self = pre

\* A start setter fails with a file loaded and a value other than the
\* stored start.
C5_Witness ==
    /\ last.op = "start" /\ ~last.ok
    /\ WasLoaded /\ ~pre.data.isNone
    /\ last.value # pre._start
    /\ _start = pre._start

\* C6: a load_file call that fails, for either value of reset, raises and
\* leaves source_path, start, end and the buffer as they were; one that
\* succeeds updates source_path, the bounds and the buffer together.
C6_LoadFileAllOrNothing ==
    /\ (last.op = "load_file" /\ ~last.ok)
           => /\ last.err # "none"
              /\ Self = pre
    /\ (last.op = "load_file" /\ last.ok)
           => /\ source_path = last.path
              /\ ~data.isNone
              /\ \A i \in DOMAIN data.items :
                     data.items[i] = <<last.path, _start + i - 1>>

\* load_file of another, too short file fails with a window loaded.
C6_Witness ==
    /\ last.op = "load_file" /\ ~last.ok /\ last.err = "FileTooShort"
    /\ WasLoaded /\ last.path # pre.source_path
    /\ pre._end > pre._start
    /\ source_path = pre.source_path

\* C7: with a file of T >= 1 records loaded, setting end to v > T succeeds
\* and leaves end = T, and setting start to v >= T succeeds and leaves
\* start = T - 1.
C7_SettersClamp ==
    /\ (/\ last.op = "end" /\ WasLoaded
        /\ last.value > TotalRecords(pre.source_path))
           => last.ok /\ _end = TotalRecords(pre.source_path)
    /\ (/\ last.op = "start" /\ WasLoaded
        /\ last.value >= TotalRecords(pre.source_path))
           => last.ok /\ _start = TotalRecords(pre.source_path) - 1

\* start was set past the end of a file of at least two records.
C7_Witness ==
    /\ last.op = "start" /\ last.ok /\ WasLoaded
    /\ TotalRecords(source_path) >= 2
    /\ last.value > TotalRecords(source_path)
    /\ _start = TotalRecords(source_path) - 1
    /\ pre._start # _start

\* C8: a load that keeps the window (load_file(path, False), reload_file)
\* of a file with stored start < total_records and end <= total_records
\* succeeds with start and end unchanged; setting start or end to a value
\* inside the file leaves that bound equal to the value.
C8_InRangeWindowKept ==
    /\ (/\ LastIsKeepLoad
        /\ files[last.path].exists
        /\ pre._start < TotalRecords(last.path)
        /\ pre._end <= TotalRecords(last.path))
           => last.ok /\ _start = pre._start /\ _end = pre._end
    /\ (/\ last.op = "start" /\ WasLoaded
        /\ 0 <= last.value /\ last.value < TotalRecords(pre.source_path))
           => last.ok /\ _start = last.value
    /\ (/\ last.op = "end" /\ WasLoaded
        /\ 0 <= last.value /\ last.value <= TotalRecords(pre.source_path))
           => last.ok /\ _end = last.value

\* Another file was loaded with reset false over a window that ends at that
\* file's last record.
C8_Witness ==
    /\ last.op = "load_file" /\ ~last.reset /\ last.ok
    /\ WasLoaded /\ last.path # pre.source_path
    /\ pre._start > 0
    /\ pre._end = TotalRecords(last.path)
    /\ _start = pre._start /\ _end = pre._end

\* C9: loading a file shorter than one record (an empty file included)
\* raises the too-short error for either value of reset, and the buffer is
\* not touched.
C9_ShortFileRejected ==
    (/\ last.op \in {"load_file", "__init__"} /\ last.path # None
     /\ files[last.path].exists
     /\ files[last.path].st_size < DataSize)
        => /\ ~last.ok
           /\ last.err = "FileTooShort"
           /\ data = pre.data

\* A file of some, but fewer than DataSize, bytes was loaded with reset false.
C9_Witness ==
    /\ last.op = "load_file" /\ ~last.reset
    /\ files[last.path].exists
    /\ files[last.path].st_size > 0
    /\ files[last.path].st_size < DataSize
    /\ last.err = "FileTooShort"

\* C10: reload_file, and so either setter, on a DataSource that never loaded
\* a file raises (open(None)), and start, end, source_path and the buffer
\* keep their initial values.
C10_NoSourceRaises ==
    (last.op \in {"reload_file", "start", "end"} /\ ~WasLoaded)
        => /\ ~last.ok
           /\ last.err = "TypeError"
           /\ Self = Obj(None, NoData, 0, 0)

\* end was set to a value other than 0 before any file was loaded.
C10_Witness ==
    /\ last.op = "end" /\ ~WasLoaded
    /\ last.value # 0
    /\ ~last.ok
    /\ _end = 0

\* The bounds load_file found stored when the last call reached it: a
\* setter has assigned its value by then.
Requested ==
    IF last.op = "start" THEN <<last.value, pre._end>>
    ELSE IF last.op = "end" THEN <<pre._start, last.value>>
    ELSE <<pre._start, pre._end>>

\* C14: load_file logs the range-adjusted warning exactly when reset is
\* false and the resolved bounds differ from the stored ones, never for a
\* reset load, and logging it does not abort the load: the clamped bounds and
\* the buffer are committed (a load that fails after the warning fails in
\* seek, on a negative start).
C14_AdjustedWarning ==
    /\ (LastIsResetLoad \/ last.op = "__init__")
           => "adjusted" \notin last.log
    /\ (LastIsLoad /\ last.ok)
           => ("adjusted" \in last.log
                   <=> (~last.reset /\ <<_start, _end>> # Requested))
    /\ (LastIsLoad /\ last.ok /\ "adjusted" \in last.log)
           => /\ ~data.isNone
              /\ _start = IF Requested[1] >= TotalRecords(source_path)
                          THEN TotalRecords(source_path) - 1
                          ELSE Requested[1]
              /\ _end = IF Requested[2] > TotalRecords(source_path)
                        THEN TotalRecords(source_path)
                        ELSE Requested[2]
    /\ (LastIsLoad /\ ~last.ok /\ "adjusted" \in last.log)
           => /\ last.op = "start" /\ last.value < 0
              /\ last.err = "IOError"

\* end was set past the end of the file: the warning is logged and the
\* clamped end is committed.
C14_Witness ==
    /\ last.op = "end" /\ last.ok /\ WasLoaded
    /\ last.value > TotalRecords(source_path)
    /\ "adjusted" \in last.log
    /\ _end = TotalRecords(source_path)
    /\ Len(data.items) = _end - _start
    /\ _end > _start

\* C15: for a file of T >= 1 records and stored bounds 0 <= start <= end the
\* two clamps resolve to start <= end, and a non-reset load from such bounds
\* succeeds with start <= end; with the files fixed, reload_file after a
\* successful load succeeds and leaves start and end unchanged.
C15_ClampsKeepOrder ==
    /\ \A len \in FileLens, s \in 0..MaxValue, e \in 0..MaxValue :
           (len \div DataSize >= 1 /\ s <= e)
               => LET r == FileRange(len, FALSE, s, e)
                  IN  r.ok /\ r.new_start <= r.new_end
    /\ (/\ LastIsLoad /\ ~last.reset /\ last.path # None
        /\ files[last.path].exists
        /\ TotalRecords(last.path) >= 1
        /\ 0 <= Requested[1] /\ Requested[1] <= Requested[2])
           => last.ok /\ 0 <= _start /\ _start <= _end
    /\ (last.op = "reload_file" /\ WasLoaded)
           => last.ok /\ _start = pre._start /\ _end = pre._end

\* A shorter file was loaded with reset false over an ordered window that
\* starts past its end: both clamps act and the order is kept.
C15_Witness ==
    /\ last.op = "load_file" /\ ~last.reset /\ last.ok
    /\ 0 <= pre._start /\ pre._start < pre._end
    /\ pre._start >= TotalRecords(last.path)
    /\ _start = TotalRecords(last.path) - 1
    /\ _end = TotalRecords(last.path)

\* The last call was a file open that completed, made while the plots were
\* showing a long recording, which every refresh so far could display.
OpenAfterShownFile ==
    /\ last.op = "open_file" /\ last.path # Cancelled /\ last.ok
    /\ WasLoaded
    /\ Len(pre.data.items) = LongRecords

\* C11: across the file opens of a session the reset flag passed to
\* load_file is true for the first file opened (preloaded or picked in the
\* dialog) and false for every later open. Stated for the preload, for the
\* first open of the dialog, and for the opens that follow a displayed file.
C11_ResetOnlyForFirstFile ==
    /\ (last.op = "MainWindow" /\ last.path # None) => last.reset
    /\ (last.op = "open_file" /\ last.path # Cancelled /\ ~WasLoaded)
           => last.reset
    /\ OpenAfterShownFile => ~last.reset

\* C12: the stored window has as many coefficients as the stored fft size,
\* from construction and after every set_fft; set_fft stores the new size
\* and the new window before it refreshes, so every transform is given a
\* window of nfft coefficients.
C12_WindowLengthIsFftSize ==
    /\ window.len = fftsize
    /\ psd.ran => psd.win.len = psd.nfft
    /\ last.op = "set_fft"
           => /\ fftsize = last.value
              /\ window.len = last.value
              /\ ~data.isNone
                     => psd.ran /\ psd.nfft = last.value /\ psd.win = window

\* With a file loaded, the size was changed to 512 and the window to hann,
\* and the PSD was computed with them.
C12_Witness ==
    /\ last.op = "set_fft" /\ last.value = 2^9
    /\ ~data.isNone
    /\ fftsize = 2^9
    /\ window = SignalWindow("hann", 2^9)
    /\ psd.ran /\ psd.nfft = 2^9 /\ psd.win.len = 2^9

\* C13: for a loaded 100-sample file with the full window, fft size 256 and
\* the blackman window, the PSD computation completes and returns a frequency
\* axis and a magnitude array of 256 entries each.
C13_PsdOfShortBuffer ==
    (/\ psd.ran
     /\ source_path # None
     /\ _start = 0 /\ _end = FixtureRecords
     /\ Len(data.items) = FixtureRecords
     /\ psd.n = FixtureRecords
     /\ psd.nfft = DefaultFftSize
     /\ psd.win = SignalWindow("blackman", DefaultFftSize))
        => /\ psd.ok
           /\ psd.freq_len = DefaultFftSize
           /\ psd.power_len = DefaultFftSize

====
